---- MODULE Spec2Model ----
(***************************************************************************)
(* Model of amxmodx-tools: the AMXX container header parser                *)
(* (src/amxmodx/file.rs), the AMX module header parser and its segment and *)
(* symbol-table accessors (src/amxmod/plugin.rs and                        *)
(* src/amxmod/plugin/try_from_vec_u8.rs) and the function reconstruction   *)
(* pass (src/ast/plugin.rs).                                               *)
(*                                                                         *)
(* Byte buffers are sequences of 0..255.  Offsets are written 0-based as   *)
(* in the source; At(b, off) is the byte at 0-based offset off.            *)
(* A u32 is kept as two 16-bit halves [lo, hi] because the model checker's *)
(* integers are 32-bit signed and cannot hold 0xFFFFFFFF.                  *)
(***************************************************************************)
EXTENDS Integers, Sequences, FiniteSets, TLC

VARIABLES
    bin,        \* the input byte buffer
    file,       \* result of amxmodx::File::from(bin)
    plugin,     \* result of amxmod::Plugin::from(bin)
    plugin2,    \* result of <Plugin as TryFrom<Vec<u8>>>::try_from(bin)
    build,      \* "debug" (overflow checks on) or "release" (wrapping)
    ret,        \* outcome of the last accessor call on the parsed module
    opcodes,    \* the instruction sequence handed to the reconstructor
    pc,         \* number of instructions the reconstruction loop has consumed
    functions,  \* ast::Plugin::from_amxmod_plugin: functions
    stack,      \* ast::Plugin::from_amxmod_plugin: stack (pending buffer)
    tree        \* result of from_amxmod_plugin

vars == <<bin, file, plugin, plugin2, build, ret, opcodes, pc, functions, stack, tree>>

None == [kind |-> "none"]

----------------------------------------------------------------------------
(* Bytes, cursors and little-endian reads                                  *)

At(b, off) == b[off + 1]

U32(lo, hi) == [lo |-> lo, hi |-> hi]

\* the two 16-bit halves of a number below 2^31
U32Of(n) == U32(n % 65536, n \div 65536)

\* std::io::Cursor + byteorder::ReadBytesExt: a read of w bytes at position
\* pos fails when fewer than w bytes remain, else yields the value and
\* advances the position by w.
read_u8(b, pos) ==
    IF Len(b) - pos < 1 THEN [ok |-> FALSE]
    ELSE [ok |-> TRUE, val |-> At(b, pos), pos |-> pos + 1]

read_u16(b, pos) ==
    IF Len(b) - pos < 2 THEN [ok |-> FALSE]
    ELSE [ok |-> TRUE, val |-> At(b, pos) + 256 * At(b, pos + 1), pos |-> pos + 2]

\* a variant that reads the four bytes most significant first
read_u32_be(b, pos) ==
    IF Len(b) - pos < 4 THEN [ok |-> FALSE]
    ELSE [ok |-> TRUE,
          val |-> U32(At(b, pos + 3) + 256 * At(b, pos + 2),
                      At(b, pos + 1) + 256 * At(b, pos)),
          pos |-> pos + 4]

read_u32(b, pos) ==
    IF Len(b) - pos < 4 THEN [ok |-> FALSE]
    ELSE [ok |-> TRUE,
          val |-> U32(At(b, pos) + 256 * At(b, pos + 1),
                      At(b, pos + 2) + 256 * At(b, pos + 3)),
          pos |-> pos + 4]

----------------------------------------------------------------------------
(* amxmodx::File (the container header)                                    *)

MAGIC == 1095587928
COMPATIBLE_VERSION == 768
AMXX_HEADER_SIZE == 7

FileErr(msg) == [kind |-> "err", msg |-> msg]
FileOk(b, s) == [kind |-> "ok", bin |-> b, sections |-> s]

\* a variant that validates the version before the magic
FileFrom_version_first(b) ==
    LET m == read_u32(b, 0)
        v == read_u16(b, 4) IN
    IF v.ok /\ v.val # COMPATIBLE_VERSION THEN FileErr("Incompatible file version")
    ELSE IF ~m.ok THEN FileErr("Magic EOF")
    ELSE IF m.val # U32Of(MAGIC) THEN FileErr("Invalid file magic")
    ELSE IF ~v.ok THEN FileErr("Version EOF")
    ELSE LET s == read_u8(b, v.pos) IN
         IF ~s.ok THEN FileErr("Sections EOF")
         ELSE IF s.val < 1 THEN FileErr("Zero sections amount")
         ELSE IF s.val > 2 THEN FileErr("More than two sections (malicious file?)")
         ELSE FileOk(b, s.val)

FileFrom(b) ==
    LET m == read_u32(b, 0) IN
    IF ~m.ok THEN FileErr("Magic EOF")
    ELSE IF m.val # U32Of(MAGIC) THEN FileErr("Invalid file magic")
    ELSE LET v == read_u16(b, m.pos) IN
         IF ~v.ok THEN FileErr("Version EOF")
         ELSE IF v.val # COMPATIBLE_VERSION THEN FileErr("Incompatible file version")
         ELSE LET s == read_u8(b, v.pos) IN
              IF ~s.ok THEN FileErr("Sections EOF")
              ELSE IF s.val < 1 THEN FileErr("Zero sections amount")
              ELSE IF s.val > 2 THEN FileErr("More than two sections (malicious file?)")
              ELSE FileOk(b, s.val)

\* Container inputs: every buffer of up to MaxFileLen bytes whose byte at
\* each position is the well-formed one or a deviating one.
MaxFileLen == 9

FileAlphabet(i) ==
    CASE i = 1 -> {88, 0}
      [] i = 2 -> {88, 77}
      [] i = 3 -> {77, 0}
      [] i = 4 -> {65, 66}
      [] i = 5 -> {0, 1}
      [] i = 6 -> {3, 4}
      [] i = 7 -> {0, 1, 2, 3, 255}
      [] OTHER -> {0, 7}

RECURSIVE FileSeqs(_)
FileSeqs(n) ==
    IF n = 0 THEN {<<>>}
    ELSE {Append(s, x) : s \in FileSeqs(n - 1), x \in FileAlphabet(n)}

FileInputs == UNION {FileSeqs(n) : n \in 0..MaxFileLen}

IdleModule == plugin = None /\ plugin2 = None /\ build = "debug" /\ ret = None
IdleAst == opcodes = <<>> /\ pc = 0 /\ functions = <<>> /\ stack = <<>> /\ tree = None

\* Section::SIZE: one u8 and four u32
SIZE == 17

\* Section::from: cellsize (u8), then disksize, imagesize, memsize and offset
\* (u32, little-endian); a short read is an error
SectionFrom(b) ==
    LET cellsize == read_u8(b, 0) IN
    IF ~cellsize.ok THEN FileErr("Truncated") ELSE
    LET disksize == read_u32(b, cellsize.pos) IN
    IF ~disksize.ok THEN FileErr("Truncated") ELSE
    LET imagesize == read_u32(b, disksize.pos) IN
    IF ~imagesize.ok THEN FileErr("Truncated") ELSE
    LET memsize == read_u32(b, imagesize.pos) IN
    IF ~memsize.ok THEN FileErr("Truncated") ELSE
    LET offset == read_u32(b, memsize.pos) IN
    IF ~offset.ok THEN FileErr("Truncated") ELSE
    [kind |-> "ok",
     val |-> [cellsize |-> cellsize.val, disksize |-> disksize.val,
              imagesize |-> imagesize.val, memsize |-> memsize.val,
              offset |-> offset.val]]

\* the loop of File::sections from index i on, the descriptors so far in acc,
\* the first descriptor at offset base: &self.bin[section_offset..] panics
\* when section_offset exceeds the buffer length, and the first descriptor
\* that fails to parse ends the loop with its error
RECURSIVE SectionsLoop(_, _, _, _)
SectionsLoop(self, base, i, acc) ==
    IF i >= self.sections THEN [kind |-> "ok", val |-> acc] ELSE
    LET section_offset == base + SIZE * i IN
    IF section_offset > Len(self.bin)
    THEN [kind |-> "panic", msg |-> "range start index out of range"] ELSE
    LET section == SectionFrom(SubSeq(self.bin, section_offset + 1, Len(self.bin))) IN
    IF section.kind = "err" THEN section
    ELSE SectionsLoop(self, base, i + 1, Append(acc, section.val))

\* a variant that forgets the container header in front of the descriptors
sections_without_header(self) == SectionsLoop(self, 0, 0, <<>>)

\* File::sections
sections(self) == SectionsLoop(self, AMXX_HEADER_SIZE, 0, <<>>)

\* longest container among the inputs that carry section descriptors
MaxSectionsLen == 43

\* the bytes after the container header: pattern p, all different
DescriptorBytes(p) == [k \in 1..MaxSectionsLen |-> (37 * k + 11 * p) % 256]

\* a well-formed container header declaring one or two sections, followed by
\* descriptor bytes, cut at every length
SectionInputs ==
    {SubSeq(<<88, 88, 77, 65, 0, 3, c>> \o DescriptorBytes(p), 1, n) :
        c \in {1, 2}, p \in {0, 1}, n \in 7..MaxSectionsLen}

InitFile ==
    /\ bin \in FileInputs \cup SectionInputs
    /\ file = None
    /\ IdleModule
    /\ IdleAst

ParseFile ==
    /\ file = None
    /\ file' = FileFrom(bin)
    /\ UNCHANGED <<bin, plugin, plugin2, build, ret, opcodes, pc, functions, stack, tree>>

Sections ==
    /\ file.kind = "ok"
    /\ ret' = [op |-> "sections"] @@ sections(file)
    /\ UNCHANGED <<bin, file, plugin, plugin2, build, opcodes, pc, functions, stack, tree>>

NextFile == ParseFile \/ Sections

SpecFile == InitFile /\ [][NextFile]_vars

----------------------------------------------------------------------------
\* C4: File::from reads magic, version and section count in that order and
\* its outcome is decided by the first failing step; it succeeds exactly
\* when the first 7 bytes are 58 58 4D 41 00 03 followed by a count of 1 or
\* 2, and the constructed container's section count is byte 6 of the input.
FileExpected(b) ==
    IF Len(b) < 4 THEN FileErr("Magic EOF")
    ELSE IF SubSeq(b, 1, 4) # <<88, 88, 77, 65>> THEN FileErr("Invalid file magic")
    ELSE IF Len(b) < 6 THEN FileErr("Version EOF")
    ELSE IF SubSeq(b, 5, 6) # <<0, 3>> THEN FileErr("Incompatible file version")
    ELSE IF Len(b) < 7 THEN FileErr("Sections EOF")
    ELSE IF b[7] = 0 THEN FileErr("Zero sections amount")
    ELSE IF b[7] > 2 THEN FileErr("More than two sections (malicious file?)")
    ELSE FileOk(b, b[7])

C4_ContainerParseOutcome ==
    file # None =>
        /\ file = FileExpected(bin)
        /\ file.kind = "ok" <=>
              (Len(bin) >= 7 /\ SubSeq(bin, 1, 6) = <<88, 88, 77, 65, 0, 3>>
                 /\ bin[7] \in {1, 2})
        /\ file.kind = "ok" => file.sections \in {1, 2} /\ file.sections = bin[7]

\* a container with trailing bytes after a well-formed header was accepted
C4_Witness ==
    /\ file # None /\ file.kind = "ok" /\ file.sections = 2 /\ Len(bin) > 7

\* the u32 at 0-based offset off of b, as its two 16-bit halves
WordAt(b, off) ==
    [lo |-> b[off + 1] + 256 * b[off + 2], hi |-> b[off + 3] + 256 * b[off + 4]]

\* the descriptor whose record starts at 0-based offset off of b
DescriptorAt(b, off) ==
    [cellsize |-> b[off + 1], disksize |-> WordAt(b, off + 1),
     imagesize |-> WordAt(b, off + 5), memsize |-> WordAt(b, off + 9),
     offset |-> WordAt(b, off + 13)]

\* C12: for every accepted container, sections() returns exactly
\* section_count descriptors in index order, descriptor i parsed from the
\* bytes at offset 7 + i * record_size, or an error when some descriptor's
\* bytes are not all in the buffer; it never slices past the buffer end and
\* never panics.
C12_SectionsOrTruncated ==
    (ret # None /\ ret.op = "sections") =>
        /\ ret.kind \in {"ok", "err"}
        /\ ret.kind = "err" <=> Len(bin) < 7 + 17 * bin[7]
        /\ ret.kind = "ok" =>
              /\ Len(ret.val) = bin[7]
              /\ \A i \in 1..Len(ret.val) :
                    ret.val[i] = DescriptorAt(bin, 7 + 17 * (i - 1))

\* two descriptors were returned from a container that holds exactly two
C12_Witness ==
    /\ ret # None /\ ret.op = "sections" /\ ret.kind = "ok"
    /\ Len(ret.val) = 2 /\ Len(bin) = 41
    /\ ret.val[1] # ret.val[2]

\* sections() failed on a container that holds one of its two descriptors
C12_WitnessTruncated ==
    /\ ret # None /\ ret.op = "sections" /\ ret.kind = "err"
    /\ bin[7] = 2 /\ Len(bin) = 30

----------------------------------------------------------------------------
(* amxmod::Plugin (the module header)                                      *)

AMXMOD_MAGIC == 61920
FILE_VERSION == 8
AMX_VERSION == 8
CELLSIZE == 4

\* a short read, reported with the .context(..) text of the field
Eof(ctx) == [kind |-> "err", error |-> "Eof", context |-> ctx]
\* AmxParseError::{InvalidMagic, InvalidFileVersion, InvalidAmxVersion}
Invalid(e, expected, actual) ==
    [kind |-> "err", error |-> e, expected |-> expected, actual |-> actual]

\* Plugin::from
PluginFrom(b) ==
    LET size == read_u32(b, 0) IN
    IF ~size.ok THEN Eof("EOF on amx size") ELSE
    LET magic == read_u16(b, size.pos) IN
    IF ~magic.ok THEN Eof("EOF on amx magic") ELSE
    IF magic.val # AMXMOD_MAGIC THEN Invalid("InvalidMagic", AMXMOD_MAGIC, magic.val) ELSE
    LET file_version == read_u8(b, magic.pos) IN
    IF ~file_version.ok THEN Eof("EOF on amx file version") ELSE
    IF file_version.val # FILE_VERSION
    THEN Invalid("InvalidFileVersion", FILE_VERSION, file_version.val) ELSE
    LET amx_version == read_u8(b, file_version.pos) IN
    IF ~amx_version.ok THEN Eof("EOF on amx version") ELSE
    IF amx_version.val # AMX_VERSION
    THEN Invalid("InvalidAmxVersion", AMX_VERSION, amx_version.val) ELSE
    LET flags == read_u16(b, amx_version.pos) IN
    IF ~flags.ok THEN Eof("EOF on amx flags") ELSE
    LET defsize == read_u16(b, flags.pos) IN
    IF ~defsize.ok THEN Eof("EOF on amx defsize") ELSE
    LET cod == read_u32(b, defsize.pos) IN
    IF ~cod.ok THEN Eof("EOF on amx cod") ELSE
    LET dat == read_u32(b, cod.pos) IN
    IF ~dat.ok THEN Eof("EOF on amx dat") ELSE
    LET hea == read_u32(b, dat.pos) IN
    IF ~hea.ok THEN Eof("EOF on amx hea") ELSE
    LET stp == read_u32(b, hea.pos) IN
    IF ~stp.ok THEN Eof("EOF on amx stp") ELSE
    LET cip == read_u32(b, stp.pos) IN
    IF ~cip.ok THEN Eof("EOF on amx cip") ELSE
    LET publics == read_u32(b, cip.pos) IN
    IF ~publics.ok THEN Eof("EOF on amx publics") ELSE
    LET natives == read_u32(b, publics.pos) IN
    IF ~natives.ok THEN Eof("EOF on amx natives") ELSE
    LET libraries == read_u32(b, natives.pos) IN
    IF ~libraries.ok THEN Eof("EOF on amx libraries") ELSE
    LET pubvars == read_u32(b, libraries.pos) IN
    IF ~pubvars.ok THEN Eof("EOF on amx pubvars") ELSE
    LET tags == read_u32(b, pubvars.pos) IN
    IF ~tags.ok THEN Eof("EOF on amx tags") ELSE
    LET nametable == read_u32(b, tags.pos) IN
    IF ~nametable.ok THEN Eof("EOF on amx nametable") ELSE
    [kind |-> "ok", flags |-> flags.val, defsize |-> defsize.val,
     cod |-> cod.val, dat |-> dat.val, hea |-> hea.val, stp |-> stp.val,
     cip |-> cip.val, publics |-> publics.val, natives |-> natives.val,
     libraries |-> libraries.val, pubvars |-> pubvars.val, tags |-> tags.val,
     nametable |-> nametable.val, bin |-> b]

\* a variant that checks the file version before the magic
TryFrom_version_first(b) ==
    IF Len(b) >= 7 /\ At(b, 6) # FILE_VERSION
    THEN Invalid("InvalidFileVersion", FILE_VERSION, At(b, 6))
    ELSE PluginFrom(b)

\* <Plugin as TryFrom<Vec<u8>>>::try_from
TryFrom(b) ==
    LET size == read_u32(b, 0) IN
    IF ~size.ok THEN Eof("EOF on amx size") ELSE
    LET magic == read_u16(b, size.pos) IN
    IF ~magic.ok THEN Eof("EOF on amx magic") ELSE
    IF magic.val # AMXMOD_MAGIC THEN Invalid("InvalidMagic", AMXMOD_MAGIC, magic.val) ELSE
    LET file_version == read_u8(b, magic.pos) IN
    IF ~file_version.ok THEN Eof("EOF on amx file version") ELSE
    IF file_version.val # FILE_VERSION
    THEN Invalid("InvalidFileVersion", FILE_VERSION, file_version.val) ELSE
    LET amx_version == read_u8(b, file_version.pos) IN
    IF ~amx_version.ok THEN Eof("EOF on amx version") ELSE
    IF amx_version.val # AMX_VERSION
    THEN Invalid("InvalidAmxVersion", AMX_VERSION, amx_version.val) ELSE
    LET flags == read_u16(b, amx_version.pos) IN
    IF ~flags.ok THEN Eof("EOF on amx flags") ELSE
    LET defsize == read_u16(b, flags.pos) IN
    IF ~defsize.ok THEN Eof("EOF on amx defsize") ELSE
    LET cod == read_u32(b, defsize.pos) IN
    IF ~cod.ok THEN Eof("EOF on amx cod") ELSE
    LET dat == read_u32(b, cod.pos) IN
    IF ~dat.ok THEN Eof("EOF on amx dat") ELSE
    LET hea == read_u32(b, dat.pos) IN
    IF ~hea.ok THEN Eof("EOF on amx hea") ELSE
    LET stp == read_u32(b, hea.pos) IN
    IF ~stp.ok THEN Eof("EOF on amx stp") ELSE
    LET cip == read_u32(b, stp.pos) IN
    IF ~cip.ok THEN Eof("EOF on amx cip") ELSE
    LET publics == read_u32(b, cip.pos) IN
    IF ~publics.ok THEN Eof("EOF on amx publics") ELSE
    LET natives == read_u32(b, publics.pos) IN
    IF ~natives.ok THEN Eof("EOF on amx natives") ELSE
    LET libraries == read_u32(b, natives.pos) IN
    IF ~libraries.ok THEN Eof("EOF on amx libraries") ELSE
    LET pubvars == read_u32(b, libraries.pos) IN
    IF ~pubvars.ok THEN Eof("EOF on amx pubvars") ELSE
    LET tags == read_u32(b, pubvars.pos) IN
    IF ~tags.ok THEN Eof("EOF on amx tags") ELSE
    LET nametable == read_u32(b, tags.pos) IN
    IF ~nametable.ok THEN Eof("EOF on amx nametable") ELSE
    [kind |-> "ok", flags |-> flags.val, defsize |-> defsize.val,
     cod |-> cod.val, dat |-> dat.val, hea |-> hea.val, stp |-> stp.val,
     cip |-> cip.val, publics |-> publics.val, natives |-> natives.val,
     libraries |-> libraries.val, pubvars |-> pubvars.val, tags |-> tags.val,
     nametable |-> nametable.val, bin |-> b]

----------------------------------------------------------------------------
(* Module inputs                                                           *)

LE16(n) == <<n % 256, n \div 256>>
LE32(n) == LE16(n % 65536) \o LE16(n \div 65536)

\* A module image: the 56-byte header, one public record at 56, two native
\* records at 64, the names "fn", "a", "bc" at 80, a code segment at 88, a
\* data segment holding "hi" one character per cell at 100 (with two other
\* non-zero bytes inside the cells), and two trailing bytes at 112.  The header offsets, the second native's name offset and
\* the last byte vary.
Image(magic, fv, av, cod, dat, hea, publics, natives, libraries, nameoff2, last) ==
       LE32(114) \o LE16(magic) \o <<fv, av>> \o LE16(2) \o LE16(8)
    \o LE32(cod) \o LE32(dat) \o LE32(hea) \o LE32(16680) \o <<255, 255, 255, 255>>
    \o LE32(publics) \o LE32(natives) \o LE32(libraries)
    \o LE32(libraries) \o LE32(libraries) \o LE32(80)
    \o LE32(8) \o LE32(80)
    \o LE32(0) \o LE32(83) \o LE32(0) \o LE32(nameoff2)
    \o <<102, 110, 0, 97, 0, 98, 99, 0>>
    \o <<0, 0, 0, 0, 0, 0, 0, 0, 46, 0, 0, 0>>
    \o <<104, 7, 0, 0, 105, 0, 9, 0, 0, 0, 0, 0>>
    \o <<120, last>>

\* longest truncated image among the header inputs
MaxHeaderLen == 61

\* truncations of an image whose magic and versions are right or wrong
HeaderInputs ==
    {SubSeq(Image(magic, fv, av, 88, 100, 112, 56, 64, 80, 85, 0), 1, n) :
        magic \in {AMXMOD_MAGIC, 57585}, fv \in {FILE_VERSION, 7},
        av \in {AMX_VERSION, 9}, n \in 0..MaxHeaderLen}

\* whole images with a valid header and arbitrary offsets
TableInputs ==
    {Image(AMXMOD_MAGIC, FILE_VERSION, AMX_VERSION, cod, dat, hea,
           publics, natives, libraries, nameoff2, last) :
        cod \in {88, 104}, dat \in {100, 120}, hea \in {96, 112, 124},
        publics \in {56, 60}, natives \in {64, 72},
        libraries \in {60, 72, 76, 80, 400},
        nameoff2 \in {85, 112, 114, 300}, last \in {0, 65}}

InitParse ==
    /\ bin \in HeaderInputs \cup TableInputs
    /\ plugin = None /\ plugin2 = None /\ build = "debug" /\ ret = None
    /\ file = None
    /\ IdleAst

ParseFrom ==
    /\ plugin = None
    /\ plugin' = PluginFrom(bin)
    /\ UNCHANGED <<bin, file, plugin2, build, ret, opcodes, pc, functions, stack, tree>>

ParseTryFrom ==
    /\ plugin2 = None
    /\ plugin2' = TryFrom(bin)
    /\ UNCHANGED <<bin, file, plugin, build, ret, opcodes, pc, functions, stack, tree>>

NextParse == ParseFrom \/ ParseTryFrom

SpecParse == InitParse /\ [][NextParse]_vars

----------------------------------------------------------------------------
\* the header fields after the versions: name, 0-based offset, width
HeaderFields ==
    << <<"flags", 8, 2>>, <<"defsize", 10, 2>>, <<"cod", 12, 4>>, <<"dat", 16, 4>>,
       <<"hea", 20, 4>>, <<"stp", 24, 4>>, <<"cip", 28, 4>>, <<"publics", 32, 4>>,
       <<"natives", 36, 4>>, <<"libraries", 40, 4>>, <<"pubvars", 44, 4>>,
       <<"tags", 48, 4>>, <<"nametable", 52, 4>> >>

\* what parsing b must give when the header is hdr bytes long
HeaderExpected(b, hdr, p) ==
    IF Len(b) < 4 THEN p = Eof("EOF on amx size")
    ELSE IF Len(b) < 6 THEN p = Eof("EOF on amx magic")
    ELSE IF <<b[5], b[6]>> # <<224, 241>>
         THEN p = Invalid("InvalidMagic", 61920, b[5] + 256 * b[6])
    ELSE IF Len(b) < 7 THEN p = Eof("EOF on amx file version")
    ELSE IF b[7] # 8 THEN p = Invalid("InvalidFileVersion", 8, b[7])
    ELSE IF Len(b) < 8 THEN p = Eof("EOF on amx version")
    ELSE IF b[8] # 8 THEN p = Invalid("InvalidAmxVersion", 8, b[8])
    ELSE IF Len(b) < hdr
         THEN /\ p.kind = "err" /\ p.error = "Eof"
              /\ \A i \in 1..Len(HeaderFields) :
                    (/\ HeaderFields[i][2] + HeaderFields[i][3] > Len(b)
                     /\ \A j \in 1..(i - 1) :
                           HeaderFields[j][2] + HeaderFields[j][3] <= Len(b))
                    => p.context = "EOF on amx " \o HeaderFields[i][1]
    ELSE p.kind = "ok"

\* C5 as stated: both parsers report a wrong magic, file version or VM
\* version, in that order, and fail with a truncation error on every input
\* shorter than a 60-byte header that passes the checks it reaches.
C5_HeaderErrors60 ==
    /\ plugin # None => HeaderExpected(bin, 60, plugin)
    /\ plugin2 # None => HeaderExpected(bin, 60, plugin2)

\* C5 amended: the same with the header being 56 bytes long, which is where
\* the last header field, nametable, ends.
C5_HeaderErrors56 ==
    /\ plugin # None => HeaderExpected(bin, 56, plugin)
    /\ plugin2 # None => HeaderExpected(bin, 56, plugin2)

\* both parsers failed on a 55-byte input with a valid magic and versions
C5_Witness ==
    /\ Len(bin) = 55
    /\ plugin = Eof("EOF on amx nametable")
    /\ plugin2 = Eof("EOF on amx nametable")

Half(b, off) == b[off + 1] + 256 * b[off + 2]
Word(b, off) == [lo |-> Half(b, off), hi |-> Half(b, off + 2)]

ValidHeader(b) ==
    /\ Len(b) >= 56
    /\ SubSeq(b, 5, 8) = <<224, 241, 8, 8>>

\* the module that b's header declares
HeaderModule(b) ==
    [kind |-> "ok", flags |-> Half(b, 8), defsize |-> Half(b, 10),
     cod |-> Word(b, 12), dat |-> Word(b, 16), hea |-> Word(b, 20),
     stp |-> Word(b, 24), cip |-> Word(b, 28), publics |-> Word(b, 32),
     natives |-> Word(b, 36), libraries |-> Word(b, 40), pubvars |-> Word(b, 44),
     tags |-> Word(b, 48), nametable |-> Word(b, 52), bin |-> b]

\* C6: for a buffer with a valid header, parsing yields a Module whose flags,
\* defsize and eleven offsets are the little-endian values at their header
\* positions and whose buffer is the whole input, and Plugin::from and
\* try_from give the same result on the same input.
C6_HeaderFieldsExact ==
    /\ (plugin # None /\ ValidHeader(bin)) => plugin = HeaderModule(bin)
    /\ (plugin2 # None /\ ValidHeader(bin)) => plugin2 = HeaderModule(bin)
    /\ (plugin # None /\ plugin2 # None) => plugin = plugin2

\* both parsers accepted a whole image with cip = 0xFFFFFFFF
C6_Witness ==
    /\ Len(bin) = 114
    /\ plugin.kind = "ok" /\ plugin2.kind = "ok"
    /\ plugin.cip = U32(65535, 65535) /\ plugin.dat = U32(100, 0)
    /\ plugin2.hea = U32(112, 0)

----------------------------------------------------------------------------
(* amxmod::Plugin accessors                                                *)

Panic(msg) == [kind |-> "panic", msg |-> msg]
Ok(v) == [kind |-> "ok", val |-> v]

\* u32 as usize; exact for every offset below 2^31
Usize(v) == v.hi * 65536 + v.lo

\* &b[from..to]: panics when from > to or to > b.len()
Slice(b, from, to) ==
    IF from > to THEN Panic("slice index starts after its end")
    ELSE IF to > Len(b) THEN Panic("range end index out of range")
    ELSE Ok(SubSeq(b, from + 1, to))

\* &b[from..]: panics when from > b.len()
SliceFrom(b, from) ==
    IF from > Len(b) THEN Panic("range start index out of range")
    ELSE Ok(SubSeq(b, from + 1, Len(b)))

\* a - b on usize.  With overflow checks (debug) a < b panics; without
\* (release) the result wraps to a - b + 2^w, kept as the integer a - b with
\* wrapped = TRUE.
UsizeSub(a, b, bld) ==
    IF a >= b THEN [kind |-> "ok", val |-> a - b, wrapped |-> FALSE]
    ELSE IF bld = "debug" THEN Panic("attempt to subtract with overflow")
    ELSE [kind |-> "ok", val |-> a - b, wrapped |-> TRUE]

\* a + d on usize for d a result of UsizeSub: d.val + 2^w wraps back to
\* a + d.val whenever that is in 0..2^w-1
UsizeAdd(a, d) == a + d.val

\* n <= d for d a result of UsizeSub; a wrapped d exceeds every n below 2^31
UsizeLe(n, d) == d.wrapped \/ n <= d.val

\* Plugin::cod_slice
cod_slice(self, bld) ==
    LET cod_size == UsizeSub(Usize(self.dat), Usize(self.cod), bld) IN
    IF cod_size.kind = "panic" THEN cod_size
    ELSE Slice(self.bin, Usize(self.cod), UsizeAdd(Usize(self.cod), cod_size))

\* Plugin::dat_size
dat_size(self, bld) == UsizeSub(Usize(self.hea), Usize(self.dat), bld)

\* Plugin::dat_slice
dat_slice(self, bld) ==
    LET size == dat_size(self, bld) IN
    IF size.kind = "panic" THEN size
    ELSE Slice(self.bin, Usize(self.dat), UsizeAdd(Usize(self.dat), size))

\* util::ReadByteString::read_string_zero: the bytes before the first zero
\* byte, an error when there is none
read_string_zero(b) ==
    IF \A i \in 1..Len(b) : b[i] # 0 THEN [kind |-> "err", msg |-> "UnterminatedString"]
    ELSE LET z == CHOOSE i \in 1..Len(b) : b[i] = 0 /\ \A j \in 1..(i - 1) : b[j] # 0
         IN Ok(SubSeq(b, 1, z - 1))

\* slice.chunks(8): consecutive runs of 8 bytes, the last one shorter when
\* the length is not a multiple of 8
Chunks(sl, w) ==
    [i \in 1..((Len(sl) + w - 1) \div w) |->
        SubSeq(sl, (i - 1) * w + 1, IF i * w <= Len(sl) THEN i * w ELSE Len(sl))]

\* the closure of natives()/publics() applied to one chunk
SymbolOf(self, n_struct) ==
    LET address == Slice(n_struct, 0, 4) IN
    IF address.kind = "panic" THEN address ELSE
    LET name_offset == Slice(n_struct, 4, 8) IN
    IF name_offset.kind = "panic" THEN name_offset ELSE
    LET tail == SliceFrom(self.bin, Usize(read_u32(name_offset.val, 0).val)) IN
    IF tail.kind = "panic" THEN tail ELSE
    LET name == read_string_zero(tail.val) IN
    IF name.kind = "err" THEN Panic("unwrap on Err: " \o name.msg) ELSE
    Ok([name |-> name.val, address |-> read_u32(address.val, 0).val])

\* slice.chunks(8).map(..).collect(): the entries in order, or the first panic
Symbols(self, from, to) ==
    LET slice == Slice(self.bin, Usize(from), Usize(to)) IN
    IF slice.kind = "panic" THEN slice ELSE
    LET each == [i \in DOMAIN Chunks(slice.val, 8) |->
                    SymbolOf(self, Chunks(slice.val, 8)[i])] IN
    IF \E i \in DOMAIN each : each[i].kind = "panic"
    THEN each[CHOOSE i \in DOMAIN each :
                 each[i].kind = "panic" /\ \A j \in 1..(i - 1) : each[j].kind # "panic"]
    ELSE Ok([i \in DOMAIN each |-> each[i].val])

\* a variant that collects the records from last to first
natives_reversed(self) ==
    LET r == Symbols(self, self.natives, self.libraries) IN
    IF r.kind = "panic" THEN r
    ELSE Ok([i \in DOMAIN r.val |-> r.val[Len(r.val) + 1 - i]])

\* Plugin::natives
natives(self) == Symbols(self, self.natives, self.libraries)

\* Plugin::publics
publics(self) == Symbols(self, self.publics, self.natives)

\* Plugin::is_addr_in_dat
is_addr_in_dat(self, addr, bld) ==
    LET size == dat_size(self, bld) IN
    IF size.kind = "panic" THEN size ELSE Ok(UsizeLe(addr, size))

\* a variant that takes every byte instead of the first byte of each cell
RECURSIVE FirstBytesUntilZero_every_byte(_)
FirstBytesUntilZero_every_byte(sl) ==
    IF sl = <<>> \/ sl[1] = 0 THEN <<>>
    ELSE <<sl[1]>> \o FirstBytesUntilZero_every_byte(SubSeq(sl, 2, Len(sl)))

\* .chunks(CELLSIZE).map(|x| x[0]).take_while(|&x| x != 0).collect()
RECURSIVE FirstBytesUntilZero(_)
FirstBytesUntilZero(sl) ==
    IF sl = <<>> \/ sl[1] = 0 THEN <<>>
    ELSE <<sl[1]>> \o FirstBytesUntilZero(SubSeq(sl, CELLSIZE + 1, Len(sl)))

\* Plugin::read_constant_auto_type
read_constant_auto_type(self, addr, bld) ==
    LET in_dat == is_addr_in_dat(self, addr, bld) IN
    IF in_dat.kind = "panic" THEN in_dat ELSE
    IF ~in_dat.val THEN [kind |-> "err", msg |-> "Invalid constant addr"] ELSE
    LET dat == dat_slice(self, bld) IN
    IF dat.kind = "panic" THEN dat ELSE
    LET rest == SliceFrom(dat.val, addr) IN
    IF rest.kind = "panic" THEN rest ELSE
    Ok(FirstBytesUntilZero(rest.val))

\* largest address asked of read_constant_auto_type
MaxAddr == 14

\* the state after Plugin::from accepted an image
InitModule ==
    /\ bin \in TableInputs
    /\ plugin = PluginFrom(bin)
    /\ plugin.kind = "ok"
    /\ plugin2 = None
    /\ build \in {"debug", "release"}
    /\ ret = None
    /\ file = None
    /\ IdleAst

Called(op, r) == [op |-> op] @@ r

CodSlice ==
    /\ ret' = Called("cod_slice", cod_slice(plugin, build))
    /\ UNCHANGED <<bin, file, plugin, plugin2, build, opcodes, pc, functions, stack, tree>>

DatSlice ==
    /\ ret' = Called("dat_slice", dat_slice(plugin, build))
    /\ UNCHANGED <<bin, file, plugin, plugin2, build, opcodes, pc, functions, stack, tree>>

Natives ==
    /\ ret' = Called("natives", natives(plugin))
    /\ UNCHANGED <<bin, file, plugin, plugin2, build, opcodes, pc, functions, stack, tree>>

Publics ==
    /\ ret' = Called("publics", publics(plugin))
    /\ UNCHANGED <<bin, file, plugin, plugin2, build, opcodes, pc, functions, stack, tree>>

ReadConstant ==
    \E addr \in 0..MaxAddr :
        /\ ret' = Called("read_constant", [addr |-> addr]
                            @@ read_constant_auto_type(plugin, addr, build))
        /\ UNCHANGED <<bin, file, plugin, plugin2, build, opcodes, pc, functions, stack, tree>>

NextModule == CodSlice \/ DatSlice \/ Natives \/ Publics \/ ReadConstant

SpecModule == InitModule /\ [][NextModule]_vars

----------------------------------------------------------------------------
\* the offsets the header of bin declares
HdrCod == Usize(Word(bin, 12))
HdrDat == Usize(Word(bin, 16))
HdrHea == Usize(Word(bin, 20))
HdrPublics == Usize(Word(bin, 32))
HdrNatives == Usize(Word(bin, 36))
HdrLibraries == Usize(Word(bin, 40))

Returned(op) == ret # None /\ ret.op = op

\* what an accessor of the range [from, to) must give
SegmentGuarded(from, to) ==
    /\ to < from => (ret.kind = "err" /\ ret.msg = "MalformedSegment")
    /\ (from <= to /\ to <= Len(bin)) =>
          (ret.kind = "ok" /\ ret.val = SubSeq(bin, from + 1, to))

\* C7: code_segment() returns exactly the bytes [cod, dat) and data_segment()
\* exactly [dat, hea); when dat < cod (hea < dat) the accessor fails with
\* MalformedSegment instead of underflowing, wrapping or panicking.
C7_SegmentsGuarded ==
    /\ Returned("cod_slice") => SegmentGuarded(HdrCod, HdrDat)
    /\ Returned("dat_slice") => SegmentGuarded(HdrDat, HdrHea)

\* C8: read_constant(addr) fails with InvalidAddress for every addr greater
\* than or equal to the data segment size hea - dat, the boundary included,
\* and accepts only addr below that size.
C8_AddressBelowSize ==
    (Returned("read_constant") /\ HdrDat <= HdrHea /\ HdrHea <= Len(bin)) =>
        /\ ret.addr >= HdrHea - HdrDat =>
              (ret.kind = "err" /\ ret.msg = "Invalid constant addr")
        /\ ret.addr < HdrHea - HdrDat => ret.kind = "ok"

\* n is the null-terminated string at 0-based offset off of b
IsNameAt(b, off, n) ==
    /\ off + Len(n) < Len(b)
    /\ \A k \in 1..Len(n) : n[k] = b[off + k] /\ n[k] # 0
    /\ b[off + Len(n) + 1] = 0

\* some zero byte lies at or after 0-based offset off
Terminated(b, off) == \E k \in (off + 1)..Len(b) : b[k] = 0

\* the table [from, to) is made of whole records inside the buffer, each
\* naming a terminated string inside the buffer
WellFormedTable(b, from, to) ==
    /\ from <= to /\ to <= Len(b) /\ (to - from) % 8 = 0
    /\ \A i \in 0..((to - from) \div 8 - 1) :
          /\ Half(b, from + 8 * i + 6) = 0
          /\ Terminated(b, Half(b, from + 8 * i + 4))

\* entries es are the records of the table [from, to), in order
TableEntries(b, from, to, es) ==
    /\ Len(es) * 8 = to - from
    /\ \A i \in 1..Len(es) :
          /\ es[i].address = Word(b, from + 8 * (i - 1))
          /\ IsNameAt(b, Usize(Word(b, from + 8 * (i - 1) + 4)), es[i].name)

\* C9: natives() returns one entry per 8-byte record of [natives, libraries)
\* and publics() one per record of [publics, natives), in record order; an
\* entry's address is the record's first u32 and its name the bytes from the
\* record's second u32 up to the first zero byte.
C9_SymbolTables ==
    /\ Returned("natives") =>
          /\ WellFormedTable(bin, HdrNatives, HdrLibraries) => ret.kind = "ok"
          /\ ret.kind = "ok" => TableEntries(bin, HdrNatives, HdrLibraries, ret.val)
    /\ Returned("publics") =>
          /\ WellFormedTable(bin, HdrPublics, HdrNatives) => ret.kind = "ok"
          /\ ret.kind = "ok" => TableEntries(bin, HdrPublics, HdrNatives, ret.val)

\* natives() returned the two natives "a" and "x", the second one read from
\* the last two bytes of the buffer
C9_Witness ==
    /\ Returned("natives") /\ ret.kind = "ok"
    /\ Len(ret.val) = 2
    /\ ret.val[1] = [name |-> <<97>>, address |-> U32(0, 0)]
    /\ ret.val[2] = [name |-> <<120>>, address |-> U32(0, 0)]

\* what natives()/publics() must give for a table [from, to) that is not
\* well formed
TableGuarded(b, from, to) ==
    /\ ret.kind # "panic"
    /\ (to < from \/ to > Len(b) \/ (to - from) % 8 # 0) =>
          (ret.kind = "err" /\ ret.msg = "Truncated")
    /\ (from <= to /\ to <= Len(b) /\ (to - from) % 8 = 0) =>
          /\ (\E i \in 0..((to - from) \div 8 - 1) :
                 Usize(Word(b, from + 8 * i + 4)) > Len(b))
                => (ret.kind = "err" /\ ret.msg = "Truncated")
          /\ (\A i \in 0..((to - from) \div 8 - 1) :
                 /\ Usize(Word(b, from + 8 * i + 4)) <= Len(b)
                 /\ \E j \in 0..((to - from) \div 8 - 1) :
                       ~Terminated(b, Usize(Word(b, from + 8 * j + 4))))
                => (ret.kind = "err" /\ ret.msg = "UnterminatedString")

\* C10: for arbitrary header offsets natives() and publics() never read
\* outside the buffer and never panic: a table that ends past the buffer,
\* is inverted, is not a whole number of records, or has a name offset past
\* the buffer end yields Truncated, and a name without a zero byte before the
\* buffer end yields UnterminatedString.
C10_TablesNeverPanic ==
    /\ Returned("natives") => TableGuarded(bin, HdrNatives, HdrLibraries)
    /\ Returned("publics") => TableGuarded(bin, HdrPublics, HdrNatives)

\* the byte at 0-based offset a of the data segment [dat, hea) of bin
DataAt(a) == bin[HdrDat + a + 1]

\* C11: for an in-range addr whose string is terminated inside the data
\* segment, read_constant(addr) returns exactly data[addr], data[addr+4],
\* data[addr+8], ... (stride 4) up to but excluding the first group whose
\* first byte is zero.
C11_ConstantEveryFourthByte ==
    (Returned("read_constant") /\ HdrDat <= HdrHea /\ HdrHea <= Len(bin)
       /\ ret.addr < HdrHea - HdrDat) =>
        \A n \in 0..((HdrHea - HdrDat) \div 4) :
            (/\ ret.addr + 4 * n < HdrHea - HdrDat
             /\ DataAt(ret.addr + 4 * n) = 0
             /\ \A k \in 0..(n - 1) : DataAt(ret.addr + 4 * k) # 0)
            => /\ ret.kind = "ok"
               /\ ret.val = [i \in 1..n |-> DataAt(ret.addr + 4 * (i - 1))]

\* read_constant(0) returned "hi" from the cells h... i... 0...
C11_Witness ==
    /\ Returned("read_constant") /\ ret.addr = 0 /\ ret.kind = "ok"
    /\ ret.val = <<104, 105>>
    /\ DataAt(1) # 0

----------------------------------------------------------------------------
(* amxmod::Plugin::opcodes (instruction decoding)                          *)

\* the decoding rule of a mnemonic tag: its name and its number of operand
\* cells; a tag outside the table is unknown
OpcodeTable ==
    (U32(39, 0) :> [code |-> "OP_PUSH_C", operands |-> 1])
    @@ (U32(46, 0) :> [code |-> "OP_PROC", operands |-> 0])
    @@ (U32(48, 0) :> [code |-> "OP_RETN", operands |-> 0])
    @@ (U32(137, 0) :> [code |-> "OP_BREAK", operands |-> 0])

\* Opcode::read_from: nothing at end-of-segment; else one 4-byte tag, its
\* operand cells, and the instruction at the tag's offset
OpcodeReadFrom(seg, pos) ==
    IF pos >= Len(seg) THEN [kind |-> "none"] ELSE
    LET tag == read_u32(seg, pos) IN
    IF ~tag.ok THEN [kind |-> "err", msg |-> "Truncated"] ELSE
    IF tag.val \notin DOMAIN OpcodeTable THEN [kind |-> "err", msg |-> "UnknownOpcode"] ELSE
    LET rule == OpcodeTable[tag.val] IN
    IF Len(seg) - tag.pos < 4 * rule.operands
    THEN [kind |-> "err", msg |-> "Truncated"]
    ELSE [kind |-> "some",
          val |-> <<[code |-> rule.code, address |-> pos]>>,
          pos |-> tag.pos + 4 * rule.operands]

\* loop { match Opcode::read_from(&mut cod_reader) { .. } }
RECURSIVE OpcodesLoop(_, _, _)
OpcodesLoop(seg, pos, acc) ==
    LET o == OpcodeReadFrom(seg, pos) IN
    IF o.kind = "none" THEN Ok(acc)
    ELSE IF o.kind = "err" THEN o
    ELSE OpcodesLoop(seg, o.pos, acc \o o.val)

\* Plugin::opcodes: the two prolog reads are unwrapped
opcodes_of(self, bld) ==
    LET cod == cod_slice(self, bld) IN
    IF cod.kind = "panic" THEN cod ELSE
    LET first == read_u32(cod.val, 0) IN
    IF ~first.ok THEN Panic("unwrap on Err: failed to fill whole buffer") ELSE
    LET second == read_u32(cod.val, first.pos) IN
    IF ~second.ok THEN Panic("unwrap on Err: failed to fill whole buffer") ELSE
    OpcodesLoop(cod.val, second.pos, <<>>)

\* images whose three words at 88, 92 and 96 are mnemonic tags, with the
\* code segment placed over them in several ways
DecodeInputs ==
    {LET img == Image(AMXMOD_MAGIC, FILE_VERSION, AMX_VERSION, cod, dat, 112,
                      56, 64, 80, 85, 0) IN
       SubSeq(img, 1, 88) \o LE32(w1) \o LE32(w2) \o LE32(w3) \o SubSeq(img, 101, 114) :
        cod \in {80, 88, 96, 104}, dat \in {84, 88, 98, 100},
        w1 \in {39, 46, 48, 200}, w2 \in {39, 46, 48, 200}, w3 \in {39, 46, 48, 200}}

InitDecode ==
    /\ bin \in DecodeInputs
    /\ plugin = PluginFrom(bin)
    /\ plugin.kind = "ok"
    /\ plugin2 = None
    /\ build \in {"debug", "release"}
    /\ ret = None
    /\ file = None
    /\ IdleAst

Opcodes ==
    /\ ret' = Called("opcodes", opcodes_of(plugin, build))
    /\ UNCHANGED <<bin, file, plugin, plugin2, build, opcodes, pc, functions, stack, tree>>

NextDecode == Opcodes

SpecDecode == InitDecode /\ [][NextDecode]_vars

\* C14: opcodes() is all-or-nothing over any code segment: it skips the two
\* prolog words and returns either the instructions decoded by a cursor
\* that only moves forward up to the end of the segment, or an error with no
\* partial list; a code segment shorter than the 8-byte prolog gives an
\* error, not a crash.
C14_DecodeAllOrNothing ==
    (Returned("opcodes") /\ HdrCod <= HdrDat /\ HdrDat <= Len(bin)) =>
        /\ ret.kind \in {"ok", "err"}
        /\ HdrDat - HdrCod < 8 => ret.kind = "err"
        /\ ret.kind = "err" => DOMAIN ret = {"op", "kind", "msg"}
        /\ ret.kind = "ok" =>
              /\ \A i \in 1..Len(ret.val) :
                    /\ ret.val[i].address >= 8
                    /\ ret.val[i].address + 4 <= HdrDat - HdrCod
                    /\ WordAt(bin, HdrCod + ret.val[i].address) \in DOMAIN OpcodeTable
              /\ \A i \in 1..(Len(ret.val) - 1) :
                    ret.val[i].address < ret.val[i + 1].address

----------------------------------------------------------------------------
(* ast::Plugin::from_amxmod_plugin (function reconstruction)               *)

FunctionStart == {"OP_PROC"}
FunctionEnd == {"OP_BREAK", "OP_RETN"}
Mnemonics == FunctionStart \cup FunctionEnd \cup {"OP_PUSH_C"}

\* longest instruction sequence handed to the reconstructor
MaxOps == 6

\* an instruction: its mnemonic and its position in the stream (its identity)
OpcodeAt(codes, i) == [code |-> codes[i], address |-> i]

OpcodeStreams ==
    UNION {{[i \in 1..n |-> OpcodeAt(codes, i)] : codes \in [1..n -> Mnemonics]}
             : n \in 0..MaxOps}

\* ast::Function::from: a new function with an empty body, made from its
\* OP_PROC instruction
AstFunctionFrom(op) == [opcode |-> op, tree_elements |-> <<>>]

\* a variant in which a function-start arriving before any terminator of the
\* previous function replaces that function instead of opening a new one
OnProc_replace_unterminated(fs, op) ==
    IF fs # <<>> /\ fs[Len(fs)].tree_elements = <<>>
    THEN [fs EXCEPT ![Len(fs)] = AstFunctionFrom(op)]
    ELSE Append(fs, AstFunctionFrom(op))

\* functions.push(function)
OnProc(fs, op) == Append(fs, AstFunctionFrom(op))

\* a variant in which a flush overwrites the body instead of appending to it
OnEnd_overwrite(fs, st) == [fs EXCEPT ![Len(fs)].tree_elements = st]

\* for o in stack.iter() { last_function.tree_elements.push(..) }
OnEnd(fs, st) == [fs EXCEPT ![Len(fs)].tree_elements = @ \o st]

InitAst ==
    /\ opcodes \in OpcodeStreams
    /\ pc = 0
    /\ functions = <<>>
    /\ stack = <<>>
    /\ tree = None
    /\ bin = <<>> /\ file = None
    /\ IdleModule

Running == tree = None /\ pc < Len(opcodes)

\* opcode.code == OP_PROC
StepProc ==
    /\ Running
    /\ opcodes[pc + 1].code \in FunctionStart
    /\ functions' = OnProc(functions, opcodes[pc + 1])
    /\ pc' = pc + 1
    /\ UNCHANGED <<stack, tree, opcodes, bin, file, plugin, plugin2, build, ret>>

\* opcode.code == OP_BREAK || opcode.code == OP_RETN, with a function open
StepEnd ==
    /\ Running
    /\ opcodes[pc + 1].code \in FunctionEnd
    /\ functions # <<>>
    /\ functions' = OnEnd(functions, stack)
    /\ stack' = <<>>
    /\ pc' = pc + 1
    /\ UNCHANGED <<tree, opcodes, bin, file, plugin, plugin2, build, ret>>

\* the same with no function yet: functions.last_mut() is None and unwrap()
\* panics
StepEndNoFunction ==
    /\ Running
    /\ opcodes[pc + 1].code \in FunctionEnd
    /\ functions = <<>>
    /\ tree' = [kind |-> "panic", msg |-> "unwrap on None"]
    /\ UNCHANGED <<pc, functions, stack, opcodes, bin, file, plugin, plugin2, build, ret>>

\* stack.push(opcode)
StepOther ==
    /\ Running
    /\ opcodes[pc + 1].code \notin (FunctionStart \cup FunctionEnd)
    /\ stack' = Append(stack, opcodes[pc + 1])
    /\ pc' = pc + 1
    /\ UNCHANGED <<functions, tree, opcodes, bin, file, plugin, plugin2, build, ret>>

\* Ok(Plugin { tree_elements }) after the loop
Finish ==
    /\ tree = None
    /\ pc = Len(opcodes)
    /\ tree' = [kind |-> "ok", tree_elements |-> functions]
    /\ UNCHANGED <<pc, functions, stack, opcodes, bin, file, plugin, plugin2, build, ret>>

NextAst == StepProc \/ StepEnd \/ StepEndNoFunction \/ StepOther \/ Finish

SpecAst == InitAst /\ [][NextAst]_vars

----------------------------------------------------------------------------
IsStart(o) == o.code \in FunctionStart
ProcOps == SelectSeq(opcodes, IsStart)

\* a function-end mnemonic occurs before the first function-start mnemonic
EndBeforeProc ==
    \E i \in 1..Len(opcodes) :
        /\ opcodes[i].code \in FunctionEnd
        /\ \A j \in 1..(i - 1) : opcodes[j].code \notin FunctionStart

\* C1: reconstruction of a stream in which a function-end mnemonic occurs
\* before the first function-start mnemonic ends in a MalformedBytecode
\* error result; it never panics and never returns a tree.
C1_EndBeforeProcIsError ==
    (EndBeforeProc /\ tree # None) =>
        (tree.kind = "err" /\ tree.msg = "MalformedBytecode")

\* C2: in a successfully reconstructed tree the functions are exactly the
\* OP_PROC instructions of the stream, one each, in stream order.
C2_FunctionsAreProcs ==
    tree.kind = "ok" =>
        /\ Len(tree.tree_elements) = Len(ProcOps)
        /\ \A i \in 1..Len(ProcOps) : tree.tree_elements[i].opcode = ProcOps[i]

\* a tree with two functions, the first of which never met a terminator
C2_Witness ==
    /\ tree.kind = "ok"
    /\ Len(tree.tree_elements) = 2
    /\ tree.tree_elements[1].tree_elements = <<>>
    /\ \E i \in 1..Len(opcodes) : opcodes[i].code \in FunctionEnd

\* all body elements of a tree, function after function
RECURSIVE Bodies(_)
Bodies(fs) == IF fs = <<>> THEN <<>> ELSE fs[1].tree_elements \o Bodies(Tail(fs))

\* C3: in every reconstructed tree each instruction is attached to at most
\* one body, at most once, and an instruction attached to function F lies
\* in the stream after F's OP_PROC and before the next OP_PROC.
C3_NoDuplicationNoLeakage ==
    tree.kind = "ok" =>
        LET fs == tree.tree_elements
            all == Bodies(fs) IN
        /\ \A i, j \in 1..Len(all) : i # j => all[i] # all[j]
        /\ \A f \in 1..Len(fs) : \A k \in 1..Len(fs[f].tree_elements) :
              LET a == fs[f].tree_elements[k].address IN
              /\ a > fs[f].opcode.address
              /\ f < Len(fs) => a < fs[f + 1].opcode.address

\* the effect one consumed instruction must have on the function list and
\* on the pending buffer
StepEffect ==
    LET op == opcodes[pc + 1]
        n == Len(functions) IN
    IF op.code \in FunctionEnd
    THEN /\ stack' = <<>>
         /\ Len(functions') = n
         /\ \A i \in 1..(n - 1) : functions'[i] = functions[i]
         /\ functions'[n].opcode = functions[n].opcode
         /\ functions'[n].tree_elements = functions[n].tree_elements \o stack
    ELSE IF op.code \in FunctionStart
    THEN /\ stack' = stack
         /\ Len(functions') = n + 1
         /\ \A i \in 1..n : functions'[i] = functions[i]
         /\ functions'[n + 1].tree_elements = <<>>
    ELSE /\ stack' = Append(stack, op)
         /\ functions' = functions

IsOther(o) == o.code \notin (FunctionStart \cup FunctionEnd)

\* position of the last function-end instruction before position q, 0 if none
LastEndBefore(q) ==
    LET ends == {j \in 1..(q - 1) : opcodes[j].code \in FunctionEnd} IN
    IF ends = {} THEN 0 ELSE CHOOSE j \in ends : \A k \in ends : k <= j

\* the concatenation of the flushes made while the function started at
\* position p was current, the next function starting at position next
FlushedWhileCurrent(p, next) ==
    IF LastEndBefore(next) < p THEN <<>>
    ELSE SelectSeq(SubSeq(opcodes, LastEndBefore(p) + 1, LastEndBefore(next) - 1),
                   IsOther)

\* C13: each function-end instruction appends the whole pending buffer, in
\* order, to the body of the current function and empties the buffer;
\* function-start and function-end instructions are never placed in a body;
\* any other instruction is only appended to the pending buffer.  A
\* function's final body is the concatenation of the flushes made while it
\* was current, and instructions after the last function-end are in no body.
C13_FlushOnFunctionEnd ==
    /\ [][pc' = pc + 1 => StepEffect]_vars
    /\ [](\A f \in 1..Len(functions) : \A k \in 1..Len(functions[f].tree_elements) :
             IsOther(functions[f].tree_elements[k]))
    /\ [](tree.kind = "ok" =>
             /\ tree.tree_elements = functions
             /\ \A f \in 1..Len(functions) :
                   functions[f].tree_elements =
                      FlushedWhileCurrent(functions[f].opcode.address,
                                          IF f < Len(functions)
                                          THEN functions[f + 1].opcode.address
                                          ELSE Len(opcodes) + 1)
             /\ \A f \in 1..Len(functions) : \A k \in 1..Len(functions[f].tree_elements) :
                   functions[f].tree_elements[k].address < LastEndBefore(Len(opcodes) + 1))

\* a function whose body was assembled from two flushes, followed by an
\* instruction that no terminator follows
C13_Witness ==
    /\ tree.kind = "ok"
    /\ [i \in 1..Len(opcodes) |-> opcodes[i].code]
          = <<"OP_PROC", "OP_PUSH_C", "OP_RETN", "OP_PUSH_C", "OP_BREAK", "OP_PUSH_C">>
    /\ Len(tree.tree_elements) = 1
    /\ [i \in 1..Len(tree.tree_elements[1].tree_elements) |->
           tree.tree_elements[1].tree_elements[i].address] = <<2, 4>>
    /\ stack # <<>>

====
